---- MODULE Spec2Model ----
(***************************************************************************)
(* State-transition core of the UTXO ledger: the UTXO set accessor, the    *)
(* transaction validator and applier of the two executives (tuxedo-core    *)
(* and runtime), the block authoring and import lifecycle, and the genesis *)
(* builder.  Storage is the sp_io key-value store; every runtime function  *)
(* is an operator from a storage value to a storage value and a return     *)
(* value, and every entry point is one action.                             *)
(*                                                                         *)
(* Byte strings are sequences of integers.  BlakeTwo256, the ordered trie  *)
(* root and the storage root are collision-free commitments: a digest is   *)
(* represented by the bytes it commits to, so two digests are equal        *)
(* exactly when their preimages are.                                       *)
(***************************************************************************)
EXTENDS Integers, Sequences, FiniteSets, TLC

VARIABLES
    exec,       \* which Executive the node is built with: "core" or "runtime"
    phase,      \* "pregenesis", "built", "running" or "genesis_failed"
    storage,    \* the sp_io storage of the runtime
    last,       \* the last call: its name, arguments and return value
    pre,        \* the storage as it was when the last call started
    spendLog,   \* history: the keys consumed by successful applier calls, in order
    auth,       \* history: the authoring run in progress since the last open_block
    window,     \* history: the block window (open_block..close_block, execute_block)
    applyLog,   \* history: the transactions the applier accepted, in order
    calls       \* number of runtime calls made so far (extrinsics of a block count)

vars == <<exec, phase, storage, last, pre, spendLog, auth, window, applyLog, calls>>

\* ------------------------------------------------------------------ bounds
\* Runtime calls explored after genesis, for a node built with the tuxedo-core
\* Executive and for one built with the runtime Executive (whose applier
\* rejects nothing, so that its state space grows faster).
MaxCalls == 3
MaxRuntimeCalls == 2
MaxBlockLen == 2
MaxGenesis == 2
\* Longest genesis transaction list given to build when only genesis is explored.
MaxGenesisOnly == 3

\* Number of inputs of the transactions submitted.
InputLengths == {0, 1, 2}

\* ------------------------------------------------------------ Option, Result
None == <<>>
Some(v) == <<v>>
IsSome(o) == Len(o) = 1
Unwrap(o) == o[1]

RECURSIVE Flatten(_)
Flatten(ss) == IF Len(ss) = 0 THEN <<>> ELSE Head(ss) \o Flatten(Tail(ss))

Range(f) == {f[i] : i \in DOMAIN f}

\* ------------------------------------------------------------------- types
OutputRef(tx_hash, index) == [tx_hash |-> tx_hash, index |-> index]
Input(output_ref) == [output_ref |-> output_ref]
Output(payload) == [payload |-> payload]
Transaction(inputs, outputs) == [inputs |-> inputs, outputs |-> outputs]

\* H256::default(): the hash no transaction, no trie and no storage has.
ZeroHash == <<>>

\* derive(Encode) of OutputRef: the 32 hash bytes, then the u32 index.
EncodeOutputRef(r) == r.tx_hash \o <<r.index>>
EncodeInput(i) == EncodeOutputRef(i.output_ref)
EncodeOutput(o) == <<o.payload>>
DecodeOutput(d) == IF Len(d) = 1 THEN Some(Output(d[1])) ELSE None

\* Vec<T>::encode: the compact length, then the elements.
EncodeInputs(inputs) ==
    <<Len(inputs)>> \o Flatten([i \in 1..Len(inputs) |-> EncodeInput(inputs[i])])
EncodeOutputs(outputs) ==
    <<Len(outputs)>> \o Flatten([i \in 1..Len(outputs) |-> EncodeOutput(outputs[i])])

\* impl Encode for Transaction: the compact total length, the inputs, the outputs.
EncodeTransaction(transaction) ==
    LET inputs == EncodeInputs(transaction.inputs)
        outputs == EncodeOutputs(transaction.outputs)
        total_len == Len(inputs) + Len(outputs)
    IN  <<total_len>> \o inputs \o outputs

\* BlakeTwo256::hash_of.
hash_of(bytes) == bytes

\* Hashing::ordered_trie_root over a list of byte strings.
ordered_trie_root(extrinsics) ==
    <<Len(extrinsics)>> \o
    Flatten([i \in 1..Len(extrinsics) |-> <<Len(extrinsics[i])>> \o extrinsics[i]])

Header(number, extrinsics_root, state_root) ==
    [number |-> number, extrinsics_root |-> extrinsics_root, state_root |-> state_root]

\* ----------------------------------------------------------------- storage
\* utxo: the entries keyed by an encoded OutputRef; the three well-known keys
\* b"header", b"height" and b"extrinsics" are slots of their own (no encoded
\* OutputRef, 36 bytes long, equals one of them).
EmptyUtxo == [k \in {} |-> <<>>]
EmptyStorage == [utxo |-> EmptyUtxo, header |-> None, height |-> None, extrinsics |-> None]

storage_get(s, key) == IF key \in DOMAIN s.utxo THEN Some(s.utxo[key]) ELSE None
storage_set(s, key, value) ==
    [s EXCEPT !.utxo = [k \in (DOMAIN s.utxo) \cup {key} |->
                           IF k = key THEN value ELSE s.utxo[k]]]
storage_clear(s, key) ==
    [s EXCEPT !.utxo = [k \in (DOMAIN s.utxo) \ {key} |-> s.utxo[k]]]

\* sp_io::storage::root: commits to every key and value in storage.
storage_root(s) == <<s>>


\* ---------------------------------------------------------------- UTXO set
peek_utxo(s, output_ref) ==
    LET d == storage_get(s, EncodeOutputRef(output_ref))
    IN  IF IsSome(d) THEN DecodeOutput(Unwrap(d)) ELSE None

\* Returns the storage after the call; the Option<Output> it returns is
\* peek_utxo of the storage before, and no caller reads it.
consume_utxo(s, output_ref) == storage_clear(s, EncodeOutputRef(output_ref))

store_utxo(s, output_ref, output) ==
    storage_set(s, EncodeOutputRef(output_ref), EncodeOutput(output))

\* ------------------------------------------------------------ return values
LongevityMax == "TransactionLongevity::MAX"

\* Mutant of the verdict: the priority grows with the number of outputs and
\* the transaction is not propagated.
ValidTransaction_Prioritised(requires, provides) ==
    [requires |-> requires, provides |-> provides, priority |-> Len(provides),
     longevity |-> LongevityMax, propagate |-> FALSE]

ValidTransaction(requires, provides) ==
    [requires |-> requires, provides |-> provides, priority |-> 0,
     longevity |-> LongevityMax, propagate |-> TRUE]

\* A return value: tag is "Ok", "Err" or "Panic"; err names the error or the
\* panic; valid holds the ValidTransaction of an Ok verdict; header the Header
\* close_block returns; applied the number of extrinsics execute_block applied;
\* output the Option<Output> the UTXO set operations return.
Ret(tag, err, valid, header, applied) ==
    [tag |-> tag, err |-> err, valid |-> valid, header |-> header, applied |-> applied,
     output |-> None]
Ok == Ret("Ok", "", None, None, 0)
OkValid(v) == Ret("Ok", "", Some(v), None, 0)
Err(e) == Ret("Err", e, None, None, 0)
OkOutput(o) == [Ok EXCEPT !.output = o]

\* ------------------------------------------- the UTXO set's entry points
\* TransparentUtxoSet::peek_utxo, consume_utxo and store_utxo as calls: the
\* storage they leave and the value they return.
\* Mutant: peeking takes the entry out.
TransparentUtxoSet_peek_utxo_Taking(s, output_ref) ==
    [st |-> consume_utxo(s, output_ref), ret |-> OkOutput(peek_utxo(s, output_ref))]

TransparentUtxoSet_peek_utxo(s, output_ref) ==
    [st |-> s, ret |-> OkOutput(peek_utxo(s, output_ref))]

\* Mutant: consuming reads the entry after clearing it.
TransparentUtxoSet_consume_utxo_ReadAfter(s, output_ref) ==
    [st |-> consume_utxo(s, output_ref),
     ret |-> OkOutput(peek_utxo(consume_utxo(s, output_ref), output_ref))]

TransparentUtxoSet_consume_utxo(s, output_ref) ==
    [st |-> consume_utxo(s, output_ref), ret |-> OkOutput(peek_utxo(s, output_ref))]

TransparentUtxoSet_store_utxo(s, output_ref, output) ==
    [st |-> store_utxo(s, output_ref, output), ret |-> Ok]

\* ------------------------------------------------- tuxedo-core Executive
\* Mutant: the validator numbers the outputs from 1.
OutputRefsOf_OneBased(transaction) ==
    LET tx_hash == hash_of(EncodeTransaction(transaction))
    IN  [i \in 1..Len(transaction.outputs) |-> OutputRef(tx_hash, i)]

OutputRefsOf(transaction) ==
    LET tx_hash == hash_of(EncodeTransaction(transaction))
    IN  [i \in 1..Len(transaction.outputs) |-> OutputRef(tx_hash, i - 1)]

\* Mutants of the validator: one without the duplicate-input check, one without
\* the pre-existing-output check.
core_validate_SkipDuplicateCheck(s, transaction) ==
    LET inputs == transaction.inputs
        missing_inputs ==
            LET absent == SelectSeq(inputs, LAMBDA i : ~IsSome(peek_utxo(s, i.output_ref)))
            IN  [i \in 1..Len(absent) |-> EncodeOutputRef(absent[i].output_ref)]
        output_refs == OutputRefsOf(transaction)
        provides == [i \in 1..Len(output_refs) |-> EncodeOutputRef(output_refs[i])]
    IN  IF \E i \in 1..Len(output_refs) : IsSome(peek_utxo(s, output_refs[i]))
        THEN Err("PreExistingOutput")
        ELSE OkValid(ValidTransaction(missing_inputs, provides))

core_validate_SkipPreExistingCheck(s, transaction) ==
    LET inputs == transaction.inputs
        input_set == {EncodeInput(inputs[i]) : i \in 1..Len(inputs)}
        missing_inputs ==
            LET absent == SelectSeq(inputs, LAMBDA i : ~IsSome(peek_utxo(s, i.output_ref)))
            IN  [i \in 1..Len(absent) |-> EncodeOutputRef(absent[i].output_ref)]
        output_refs == OutputRefsOf(transaction)
        provides == [i \in 1..Len(output_refs) |-> EncodeOutputRef(output_refs[i])]
    IN  IF Cardinality(input_set) # Len(inputs)
        THEN Err("DuplicateInput")
        ELSE OkValid(ValidTransaction(missing_inputs, provides))

\* Mutant of the validator: with an input missing it returns before the
\* pre-existing-output check.
core_validate_MissingBeforePreExisting(s, transaction) ==
    LET inputs == transaction.inputs
        input_set == {EncodeInput(inputs[i]) : i \in 1..Len(inputs)}
        missing_inputs ==
            LET absent == SelectSeq(inputs, LAMBDA i : ~IsSome(peek_utxo(s, i.output_ref)))
            IN  [i \in 1..Len(absent) |-> EncodeOutputRef(absent[i].output_ref)]
        output_refs == OutputRefsOf(transaction)
        provides == [i \in 1..Len(output_refs) |-> EncodeOutputRef(output_refs[i])]
    IN  IF Cardinality(input_set) # Len(inputs)
        THEN Err("DuplicateInput")
        ELSE IF Len(missing_inputs) # 0
        THEN OkValid(ValidTransaction(missing_inputs, provides))
        ELSE IF \E i \in 1..Len(output_refs) : IsSome(peek_utxo(s, output_refs[i]))
        THEN Err("PreExistingOutput")
        ELSE OkValid(ValidTransaction(missing_inputs, provides))

\* Mutant of the validator: every input is put in requires, present or not.
core_validate_RequiresAll(s, transaction) ==
    LET inputs == transaction.inputs
        input_set == {EncodeInput(inputs[i]) : i \in 1..Len(inputs)}
        missing_inputs == [i \in 1..Len(inputs) |-> EncodeOutputRef(inputs[i].output_ref)]
        output_refs == OutputRefsOf(transaction)
        provides == [i \in 1..Len(output_refs) |-> EncodeOutputRef(output_refs[i])]
    IN  IF Cardinality(input_set) # Len(inputs)
        THEN Err("DuplicateInput")
        ELSE IF \E i \in 1..Len(output_refs) : IsSome(peek_utxo(s, output_refs[i]))
        THEN Err("PreExistingOutput")
        ELSE OkValid(ValidTransaction(missing_inputs, provides))

\* Mutant of the validator: the pre-existing-output check comes first.
core_validate_PreExistingFirst(s, transaction) ==
    LET inputs == transaction.inputs
        input_set == {EncodeInput(inputs[i]) : i \in 1..Len(inputs)}
        missing_inputs ==
            LET absent == SelectSeq(inputs, LAMBDA i : ~IsSome(peek_utxo(s, i.output_ref)))
            IN  [i \in 1..Len(absent) |-> EncodeOutputRef(absent[i].output_ref)]
        output_refs == OutputRefsOf(transaction)
        provides == [i \in 1..Len(output_refs) |-> EncodeOutputRef(output_refs[i])]
    IN  IF \E i \in 1..Len(output_refs) : IsSome(peek_utxo(s, output_refs[i]))
        THEN Err("PreExistingOutput")
        ELSE IF Cardinality(input_set) # Len(inputs)
        THEN Err("DuplicateInput")
        ELSE OkValid(ValidTransaction(missing_inputs, provides))

core_validate_tuxedo_transaction(s, transaction) ==
    LET inputs == transaction.inputs
        input_set == {EncodeInput(inputs[i]) : i \in 1..Len(inputs)}
        missing_inputs ==
            LET absent == SelectSeq(inputs, LAMBDA i : ~IsSome(peek_utxo(s, i.output_ref)))
            IN  [i \in 1..Len(absent) |-> EncodeOutputRef(absent[i].output_ref)]
        output_refs == OutputRefsOf(transaction)
        provides == [i \in 1..Len(output_refs) |-> EncodeOutputRef(output_refs[i])]
    IN  IF Cardinality(input_set) # Len(inputs)
        THEN Err("DuplicateInput")
        ELSE IF \E i \in 1..Len(output_refs) : IsSome(peek_utxo(s, output_refs[i]))
        THEN Err("PreExistingOutput")
        ELSE OkValid(ValidTransaction(missing_inputs, provides))

RECURSIVE ConsumeInputs(_, _)
ConsumeInputs(s, inputs) ==
    IF Len(inputs) = 0 THEN s
    ELSE ConsumeInputs(consume_utxo(s, Head(inputs).output_ref), Tail(inputs))

RECURSIVE StoreOutputs(_, _, _)
\* Mutant of the second loop of update_storage: the outputs are stored under
\* another hash than the one the validator derived the references from.
RECURSIVE StoreOutputs_OtherHash(_, _, _)
StoreOutputs_OtherHash(s, transaction, index) ==
    IF index >= Len(transaction.outputs) THEN s
    ELSE StoreOutputs_OtherHash(
            store_utxo(s, OutputRef(ZeroHash, index), transaction.outputs[index + 1]),
            transaction, index + 1)

StoreOutputs(s, transaction, index) ==
    IF index >= Len(transaction.outputs) THEN s
    ELSE StoreOutputs(
            store_utxo(s, OutputRef(hash_of(EncodeTransaction(transaction)), index),
                       transaction.outputs[index + 1]),
            transaction, index + 1)

\* Mutant of update_storage: the inputs are left in the set.
update_storage_KeepInputs(s, transaction) == StoreOutputs(s, transaction, 0)

update_storage(s, transaction) ==
    StoreOutputs(ConsumeInputs(s, transaction.inputs), transaction, 0)

\* Mutant of the applier: the missing-input check is left out.
ApplyValidated_IgnoreRequires(s, transaction, valid_transaction) ==
    IF valid_transaction.tag = "Err"
    THEN [st |-> s, ret |-> valid_transaction]
    ELSE [st |-> update_storage(s, transaction), ret |-> Ok]

\* Mutant of the applier: storage is updated before the verdict is looked at.
ApplyValidated_UpdateFirst(s, transaction, valid_transaction) ==
    IF valid_transaction.tag = "Err"
    THEN [st |-> update_storage(s, transaction), ret |-> valid_transaction]
    ELSE IF Len(Unwrap(valid_transaction.valid).requires) # 0
    THEN [st |-> update_storage(s, transaction), ret |-> Err("MissingInput")]
    ELSE [st |-> update_storage(s, transaction), ret |-> Ok]

\* apply_tuxedo_transaction from the verdict on: `?` on the verdict, the
\* missing-input check, then update_storage.
ApplyValidated(s, transaction, valid_transaction) ==
    IF valid_transaction.tag = "Err"
    THEN [st |-> s, ret |-> valid_transaction]
    ELSE IF Len(Unwrap(valid_transaction.valid).requires) # 0
    THEN [st |-> s, ret |-> Err("MissingInput")]
    ELSE [st |-> update_storage(s, transaction), ret |-> Ok]

\* Returns [st, ret]: the storage after the call and the DispatchResult.
core_apply_tuxedo_transaction(s, transaction) ==
    ApplyValidated(s, transaction, core_validate_tuxedo_transaction(s, transaction))

\* ----------------------------------------------------- runtime Executive
runtime_validate_tuxedo_transaction(s, transaction) ==
    LET inputs == transaction.inputs
        missing_inputs == [i \in 1..Len(inputs) |-> EncodeOutputRef(inputs[i].output_ref)]
        output_refs == OutputRefsOf(transaction)
        provides == [i \in 1..Len(output_refs) |-> EncodeOutputRef(output_refs[i])]
    IN  OkValid(ValidTransaction(missing_inputs, provides))

runtime_apply_tuxedo_transaction(s, transaction) ==
    [st |-> update_storage(s, transaction), ret |-> Ok]

\* ------------------------------------------- the Executive the node uses
validate_tuxedo_transaction(e, s, transaction) ==
    IF e = "core" THEN core_validate_tuxedo_transaction(s, transaction)
    ELSE runtime_validate_tuxedo_transaction(s, transaction)

apply_tuxedo_transaction(e, s, transaction) ==
    IF e = "core" THEN core_apply_tuxedo_transaction(s, transaction)
    ELSE runtime_apply_tuxedo_transaction(s, transaction)


\* ---------------------------------------------------------- block authoring
\* Mutant of open_block: the height slot is not written.
open_block_KeepHeight(s, header) ==
    [st |-> [s EXCEPT !.header = Some(header)], ret |-> Ok]

open_block(s, header) ==
    [st |-> [s EXCEPT !.header = Some(header), !.height = Some(header.number)],
     ret |-> Ok]

\* Mutant of apply_extrinsic: the outputs are written without the applier.
apply_extrinsic_BypassApplier(e, s, extrinsic) ==
    LET extrinsics == IF IsSome(s.extrinsics) THEN Unwrap(s.extrinsics) ELSE <<>>
        appended == [s EXCEPT !.extrinsics =
                        Some(Append(extrinsics, EncodeTransaction(extrinsic)))]
    IN  [st |-> update_storage(appended, extrinsic),
         ret |-> apply_tuxedo_transaction(e, appended, extrinsic).ret]

apply_extrinsic(e, s, extrinsic) ==
    LET extrinsics == IF IsSome(s.extrinsics) THEN Unwrap(s.extrinsics) ELSE <<>>
        appended == [s EXCEPT !.extrinsics =
                        Some(Append(extrinsics, EncodeTransaction(extrinsic)))]
    IN  apply_tuxedo_transaction(e, appended, extrinsic)

\* Mutant of close_block: the accumulator slot is cleared before it is read.
close_block_ClearBeforeRoot(s) ==
    IF ~IsSome(s.header)
    THEN [st |-> s,
          ret |-> Ret("Panic", "We initialized with header, it never got mutated, qed",
                      None, None, 0)]
    ELSE LET header == Unwrap(s.header)
             s1 == [s EXCEPT !.header = None]
             s2 == [s1 EXCEPT !.extrinsics = None]
             extrinsics == IF IsSome(s2.extrinsics) THEN Unwrap(s2.extrinsics) ELSE <<>>
             extrinsics_root == ordered_trie_root(extrinsics)
             state_root == storage_root(s2)
         IN  [st |-> s2,
              ret |-> Ret("Ok", "", None,
                          Some([header EXCEPT !.extrinsics_root = extrinsics_root,
                                              !.state_root = state_root]), 0)]

\* Mutant of close_block: the accumulator slot is not cleared.
close_block_KeepAccumulator(s) ==
    IF ~IsSome(s.header)
    THEN [st |-> s,
          ret |-> Ret("Panic", "We initialized with header, it never got mutated, qed",
                      None, None, 0)]
    ELSE LET header == Unwrap(s.header)
             s1 == [s EXCEPT !.header = None]
             extrinsics == IF IsSome(s1.extrinsics) THEN Unwrap(s1.extrinsics) ELSE <<>>
             extrinsics_root == ordered_trie_root(extrinsics)
             state_root == storage_root(s1)
         IN  [st |-> s1,
              ret |-> Ret("Ok", "", None,
                          Some([header EXCEPT !.extrinsics_root = extrinsics_root,
                                              !.state_root = state_root]), 0)]

\* Mutant of close_block: the state root is read before the accumulator slot
\* is cleared.
close_block_RootBeforeClear(s) ==
    IF ~IsSome(s.header)
    THEN [st |-> s,
          ret |-> Ret("Panic", "We initialized with header, it never got mutated, qed",
                      None, None, 0)]
    ELSE LET header == Unwrap(s.header)
             s1 == [s EXCEPT !.header = None]
             extrinsics == IF IsSome(s1.extrinsics) THEN Unwrap(s1.extrinsics) ELSE <<>>
             extrinsics_root == ordered_trie_root(extrinsics)
             state_root == storage_root(s1)
             s2 == [s1 EXCEPT !.extrinsics = None]
         IN  [st |-> s2,
              ret |-> Ret("Ok", "", None,
                          Some([header EXCEPT !.extrinsics_root = extrinsics_root,
                                              !.state_root = state_root]), 0)]

\* Mutant of close_block: a missing header slot is read as the default header.
close_block_DefaultHeader(s) ==
    LET header == IF IsSome(s.header) THEN Unwrap(s.header)
                  ELSE Header(0, ZeroHash, ZeroHash)
        s1 == [s EXCEPT !.header = None]
        extrinsics == IF IsSome(s1.extrinsics) THEN Unwrap(s1.extrinsics) ELSE <<>>
        extrinsics_root == ordered_trie_root(extrinsics)
        s2 == [s1 EXCEPT !.extrinsics = None]
        state_root == storage_root(s2)
    IN  [st |-> s2,
         ret |-> Ret("Ok", "", None,
                     Some([header EXCEPT !.extrinsics_root = extrinsics_root,
                                         !.state_root = state_root]), 0)]

close_block(s) ==
    IF ~IsSome(s.header)
    THEN [st |-> s,
          ret |-> Ret("Panic", "We initialized with header, it never got mutated, qed",
                      None, None, 0)]
    ELSE LET header == Unwrap(s.header)
             s1 == [s EXCEPT !.header = None]
             extrinsics == IF IsSome(s1.extrinsics) THEN Unwrap(s1.extrinsics) ELSE <<>>
             extrinsics_root == ordered_trie_root(extrinsics)
             s2 == [s1 EXCEPT !.extrinsics = None]
             state_root == storage_root(s2)
         IN  [st |-> s2,
              ret |-> Ret("Ok", "", None,
                          Some([header EXCEPT !.extrinsics_root = extrinsics_root,
                                              !.state_root = state_root]), 0)]

\* Executive::block_height: the stored height, or the panic of its expect.
block_height(s) ==
    IF IsSome(s.height)
    THEN [tag |-> "Ok", number |-> Unwrap(s.height)]
    ELSE [tag |-> "Panic", number |-> 0]

\* ------------------------------------------------------------- block import
\* extrinsic.checker.is_inherent() is commented out: no transaction is inherent.
\* Mutant: transactions without inputs are classified as inherents.
current_tx_is_inherent_Inputless(extrinsic) == Len(extrinsic.inputs) = 0

current_tx_is_inherent(extrinsic) == FALSE

\* The loop of execute_block from extrinsic number `applied + 1` on; returns the
\* storage, the number of extrinsics applied, the flag, and the panic ("" if none).
RECURSIVE ApplyExtrinsics(_, _, _, _, _)
\* Mutant of the loop: a rejected extrinsic is skipped and the loop goes on.
MatchApplied_SkipRejected(e, extrinsics, applied, finished, r) ==
    ApplyExtrinsics(e, r.st, extrinsics, applied + 1, finished)

\* The match on the applier's result r for extrinsic number `applied + 1`.
MatchApplied(e, extrinsics, applied, finished, r) ==
    IF r.ret.tag # "Ok"
    THEN [st |-> r.st, applied |-> applied, finished |-> finished, panic |-> r.ret.err]
    ELSE ApplyExtrinsics(e, r.st, extrinsics, applied + 1, finished)

ApplyExtrinsics(e, s, extrinsics, applied, finished_with_opening_inherents) ==
    IF applied >= Len(extrinsics)
    THEN [st |-> s, applied |-> applied,
          finished |-> finished_with_opening_inherents, panic |-> ""]
    ELSE IF current_tx_is_inherent(extrinsics[applied + 1]) /\ finished_with_opening_inherents
    THEN [st |-> s, applied |-> applied,
          finished |-> finished_with_opening_inherents,
          panic |-> "Tried to execute opening inherent after switching to non-inherents."]
    ELSE MatchApplied(e, extrinsics, applied,
                      finished_with_opening_inherents
                          \/ ~current_tx_is_inherent(extrinsics[applied + 1]),
                      apply_tuxedo_transaction(e, s, extrinsics[applied + 1]))

Block(header, extrinsics) == [header |-> header, extrinsics |-> extrinsics]

\* Mutant of the root checks: the extrinsics root is not compared.
CheckRoots_NoExtrinsicsRoot(block, loop) ==
    LET s2 == [loop.st EXCEPT !.header = None]
        state_root == storage_root(s2)
    IN  IF loop.panic # ""
        THEN [st |-> loop.st, ret |-> Ret("Panic", loop.panic, None, None, loop.applied)]
        ELSE IF block.header.state_root # state_root
        THEN [st |-> s2, ret |-> Ret("Panic", "state root mismatch", None, None, loop.applied)]
        ELSE [st |-> s2, ret |-> Ret("Ok", "", None, None, loop.applied)]

\* execute_block after its loop: the header slot is cleared and the two roots
\* are checked.
\* ret.tag "Ok" is the import ending Verified, "Panic" is it ending Failed.
CheckRoots(block, loop) ==
    LET s2 == [loop.st EXCEPT !.header = None]
        state_root == storage_root(s2)
        extrinsics == [i \in 1..Len(block.extrinsics) |->
                          EncodeTransaction(block.extrinsics[i])]
        extrinsics_root == ordered_trie_root(extrinsics)
    IN  IF loop.panic # ""
        THEN [st |-> loop.st, ret |-> Ret("Panic", loop.panic, None, None, loop.applied)]
        ELSE IF block.header.state_root # state_root
        THEN [st |-> s2, ret |-> Ret("Panic", "state root mismatch", None, None, loop.applied)]
        ELSE IF block.header.extrinsics_root # extrinsics_root
        THEN [st |-> s2,
              ret |-> Ret("Panic", "extrinsics root mismatch", None, None, loop.applied)]
        ELSE [st |-> s2, ret |-> Ret("Ok", "", None, None, loop.applied)]

\* Mutant of execute_block: the height slot is not written.
execute_block_KeepHeight(e, s, block) ==
    CheckRoots(block,
               ApplyExtrinsics(e, [s EXCEPT !.header = Some(block.header)],
                               block.extrinsics, 0, FALSE))

execute_block(e, s, block) ==
    CheckRoots(block,
               ApplyExtrinsics(e, [s EXCEPT !.header = Some(block.header),
                                            !.height = Some(block.header.number)],
                               block.extrinsics, 0, FALSE))

\* ----------------------------------------------------------------- the pool
\* Mutant of the pool entry point: validating consumes the inputs.
validate_transaction_Consuming(e, s, tx) ==
    [st |-> ConsumeInputs(s, tx.inputs), ret |-> validate_tuxedo_transaction(e, s, tx)]

\* Returns [st, ret] like the calls that write, so that its effect on storage
\* is part of what it is checked for.
validate_transaction(e, s, tx) ==
    [st |-> s, ret |-> validate_tuxedo_transaction(e, s, tx)]

\* ------------------------------------------------------------------ genesis
development_genesis_transactions == <<Transaction(<<>>, <<Output(314)>>)>>

\* Vec<Transaction>::encode read back as Vec<Vec<u8>>: each element is the
\* transaction's encoding without its length prefix.
EncodeGenesisList(genesis_transactions) ==
    [i \in 1..Len(genesis_transactions) |-> Tail(EncodeTransaction(genesis_transactions[i]))]

RECURSIVE InsertGenesis(_, _)
\* Mutant of the genesis loop: only the first transaction is checked for inputs.
InsertGenesis_CheckHeadOnly(s, genesis_transactions) ==
    IF Len(genesis_transactions) = 0 THEN [st |-> s, ret |-> Ok]
    ELSE LET tx == Head(genesis_transactions)
         IN  IF Len(tx.inputs) # 0
             THEN [st |-> s, ret |-> Err("Genesis transactions must not have any inputs.")]
             ELSE InsertGenesis(StoreOutputs(s, tx, 0),
                                SelectSeq(Tail(genesis_transactions),
                                          LAMBDA g : Len(g.inputs) = 0))

InsertGenesis(s, genesis_transactions) ==
    IF Len(genesis_transactions) = 0 THEN [st |-> s, ret |-> Ok]
    ELSE LET tx == Head(genesis_transactions)
         IN  IF Len(tx.inputs) # 0
             THEN [st |-> s, ret |-> Err("Genesis transactions must not have any inputs.")]
             ELSE InsertGenesis(StoreOutputs(s, tx, 0), Tail(genesis_transactions))

\* Mutant of build: the genesis list is not put in the accumulator slot.
build_NoAccumulator(s, genesis_transactions) ==
    InsertGenesis([s EXCEPT !.height = Some(0)], genesis_transactions)

build(s, genesis_transactions) ==
    InsertGenesis([s EXCEPT !.extrinsics = Some(EncodeGenesisList(genesis_transactions)),
                            !.height = Some(0)],
                  genesis_transactions)

\* GriffinGenesisBlockBuilder::build_genesis_block: the accumulator is removed
\* from the genesis storage, and the genesis block is made from what it held.
build_genesis_block(s) ==
    LET bodies == IF IsSome(s.extrinsics) THEN Unwrap(s.extrinsics) ELSE <<>>
        encoded == [i \in 1..Len(bodies) |-> <<Len(bodies[i])>> \o bodies[i]]
        st == [s EXCEPT !.extrinsics = None]
    IN  [st |-> st,
         ret |-> Ret("Ok", "", None,
                     Some(Header(0, ordered_trie_root(encoded), storage_root(st))), 0)]


\* ------------------------------------------------------- inputs of the calls
DecodeOutputRef(key) == OutputRef(SubSeq(key, 1, Len(key) - 1), key[Len(key)])

\* References a submitter can name: the unspent outputs, the outputs spent so
\* far, and a reference to an output that never existed.
KnownRefs(s, log) ==
    {DecodeOutputRef(k) : k \in (DOMAIN s.utxo) \cup Range(log)} \cup {OutputRef(ZeroHash, 0)}

InputLists(refs) == UNION {[1..n -> {Input(r) : r \in refs}] : n \in InputLengths}
OutputLists == {<<Output(314)>>, <<Output(100), Output(214)>>}
Transactions(refs) == {Transaction(i, o) : i \in InputLists(refs), o \in OutputLists}

\* Lists of at most n extrinsics; a later one may name an output of an earlier one.
RECURSIVE ExtrinsicLists(_, _)
ExtrinsicLists(refs, n) ==
    {<<>>} \cup
    (IF n <= 0 THEN {}
     ELSE UNION {{<<t>> \o rest : rest \in ExtrinsicLists(refs \cup Range(OutputRefsOf(t)), n - 1)}
                 : t \in Transactions(refs)})

Min(a, b) == IF a < b THEN a ELSE b

\* The header an honest author gives the block, and two corrupted ones.
\* (a block one of whose extrinsics is rejected never has its roots read)
Corruptions(honest, run) ==
    IF run.ret.applied < Len(run.extrinsics) THEN {honest}
    ELSE {honest, [honest EXCEPT !.state_root = ZeroHash],
          [honest EXCEPT !.extrinsics_root = ZeroHash]}
AuthoredHeader(number, extrinsics, run) ==
    Header(number,
           ordered_trie_root([i \in 1..Len(extrinsics) |-> EncodeTransaction(extrinsics[i])]),
           storage_root(run.st))
BlockHeadersOf(number, extrinsics, run) ==
    Corruptions(AuthoredHeader(number, extrinsics, run),
                [ret |-> run.ret, extrinsics |-> extrinsics])
BlockHeaders(e, s, number, extrinsics) ==
    BlockHeadersOf(number, extrinsics,
                   execute_block(e, s, Block(Header(number, ZeroHash, ZeroHash), extrinsics)))

\* The number a host gives the next block: one more than the stored height.
NextNumber(s) == IF IsSome(s.height) THEN Unwrap(s.height) + 1 ELSE 1

\* The calls explored for a node built with Executive e.
Budget(e) == IF e = "core" THEN MaxCalls ELSE MaxRuntimeCalls

GenesisCandidates ==
    {development_genesis_transactions[1],
     Transaction(<<Input(OutputRef(ZeroHash, 0))>>, <<Output(314)>>)}
GenesisLists == UNION {[1..n -> GenesisCandidates] : n \in 0..MaxGenesis}

\* ------------------------------------------------------------------ history
Call(op, txs, hdr, ret) == [op |-> op, txs |-> txs, hdr |-> hdr, ret |-> ret]
AuthIdle == [active |-> FALSE, closed |-> FALSE, pre |-> EmptyStorage, xs |-> <<>>]
\* kind: "none" before the first block window and after an import, "authoring"
\* from open_block to close_block, "closed" after the close_block of an
\* authoring window, "importing" after an execute_block that did not finish.
\* opened: the header given to the last open_block.
\* misused: apply_extrinsic was called outside an authoring window, or
\* execute_block inside one.  submitted: the extrinsics given to apply_extrinsic
\* since the last open_block, accepted: those of them it accepted.  stale: the accumulator slot was present at the
\* last open_block.  open: an open_block has run since the last close_block.
\* closedFrom: what the last close_block was called after: "open" an open_block
\* since the close_block before it, "import" no such open_block but an
\* execute_block that did not finish, "neither", or "none" before any close_block.
NoWindow ==
    [kind |-> "none", opened |-> None, misused |-> FALSE, submitted |-> <<>>,
     accepted |-> <<>>, stale |-> FALSE, open |-> FALSE, closedFrom |-> "none"]

\* ------------------------------------------------------------------ actions
Init ==
    /\ exec \in {"core", "runtime"}
    /\ phase = "pregenesis"
    /\ storage = EmptyStorage
    /\ last = Call("none", <<>>, None, Ok)
    /\ pre = EmptyStorage
    /\ spendLog = <<>>
    /\ auth = AuthIdle
    /\ window = NoWindow
    /\ applyLog = <<>>
    /\ calls = 0

\* What every call leaves behind: the storage it wrote and its return value.
Returns(op, txs, hdr, r) ==
    /\ storage' = r.st
    /\ last' = Call(op, txs, hdr, r.ret)
    /\ pre' = storage

Consumed(tx) == [i \in 1..Len(tx.inputs) |-> EncodeInput(tx.inputs[i])]

RECURSIVE ConsumedBy(_, _)
ConsumedBy(extrinsics, applied) ==
    IF applied = 0 THEN <<>>
    ELSE ConsumedBy(extrinsics, applied - 1) \o Consumed(extrinsics[applied])

Build(genesis_transactions) ==
    /\ phase = "pregenesis"
    /\ Returns("build", genesis_transactions, None, build(storage, genesis_transactions))
    /\ phase' = IF last'.ret.tag = "Ok" THEN "built" ELSE "genesis_failed"
    /\ UNCHANGED <<exec, spendLog, auth, window, applyLog, calls>>

BuildGenesisBlock ==
    /\ phase = "built"
    /\ Returns("build_genesis_block", <<>>, None, build_genesis_block(storage))
    /\ phase' = "running"
    /\ UNCHANGED <<exec, spendLog, auth, window, applyLog, calls>>

ValidateTransaction(tx) ==
    /\ phase = "running"
    /\ calls < Budget(exec)
    /\ Returns("validate_transaction", <<tx>>, None, validate_transaction(exec, storage, tx))
    /\ calls' = calls + 1
    /\ UNCHANGED <<exec, phase, spendLog, auth, window, applyLog>>

ApplyTuxedoTransaction(tx) ==
    /\ phase = "running"
    /\ calls < Budget(exec)
    /\ Returns("apply_tuxedo_transaction", <<tx>>, None,
               apply_tuxedo_transaction(exec, storage, tx))
    /\ spendLog' = IF last'.ret.tag = "Ok" THEN spendLog \o Consumed(tx) ELSE spendLog
    /\ auth' = AuthIdle
    /\ applyLog' = IF last'.ret.tag = "Ok" THEN Append(applyLog, tx) ELSE applyLog
    /\ calls' = calls + 1
    /\ UNCHANGED <<exec, phase, window>>

OpenBlock(header) ==
    /\ phase = "running"
    /\ calls < Budget(exec)
    /\ Returns("open_block", <<>>, Some(header), open_block(storage, header))
    /\ auth' = [active |-> TRUE, closed |-> FALSE, pre |-> storage, xs |-> <<>>]
    /\ window' = [kind |-> "authoring", opened |-> Some(header),
                  misused |-> window.misused, submitted |-> <<>>, accepted |-> <<>>,
                  stale |-> IsSome(storage.extrinsics),
                  open |-> TRUE, closedFrom |-> window.closedFrom]
    /\ calls' = calls + 1
    /\ UNCHANGED <<exec, phase, spendLog, applyLog>>

ApplyExtrinsic(tx) ==
    /\ phase = "running"
    /\ calls < Budget(exec)
    /\ Returns("apply_extrinsic", <<tx>>, None, apply_extrinsic(exec, storage, tx))
    /\ spendLog' = IF last'.ret.tag = "Ok" THEN spendLog \o Consumed(tx) ELSE spendLog
    /\ auth' = IF auth.active /\ ~auth.closed /\ last'.ret.tag = "Ok"
               THEN [auth EXCEPT !.xs = Append(@, tx)]
               ELSE AuthIdle
    /\ window' = [window EXCEPT
                     !.misused = @ \/ window.kind # "authoring",
                     !.submitted = Append(@, tx),
                     !.accepted = IF last'.ret.tag = "Ok" THEN Append(@, tx) ELSE @]
    /\ applyLog' = IF last'.ret.tag = "Ok" THEN Append(applyLog, tx) ELSE applyLog
    /\ calls' = calls + 1
    /\ UNCHANGED <<exec, phase>>

CloseBlock ==
    /\ phase = "running"
    /\ calls < Budget(exec)
    /\ Returns("close_block", <<>>, None, close_block(storage))
    /\ auth' = IF auth.active /\ ~auth.closed /\ last'.ret.tag = "Ok"
               THEN [auth EXCEPT !.closed = TRUE]
               ELSE AuthIdle
    /\ window' = [window EXCEPT
                     !.kind = IF last'.ret.tag # "Ok" THEN @
                              ELSE IF @ = "authoring" THEN "closed" ELSE "none",
                     !.open = FALSE,
                     !.closedFrom = IF window.open THEN "open"
                                    ELSE IF window.kind = "importing" THEN "import"
                                    ELSE "neither"]
    /\ calls' = calls + 1
    /\ UNCHANGED <<exec, phase, spendLog, applyLog>>

ExecuteBlock(block) ==
    /\ phase = "running"
    /\ calls + 1 + Len(block.extrinsics) <= Budget(exec)
    /\ Returns("execute_block", block.extrinsics, Some(block.header),
               execute_block(exec, storage, block))
    /\ spendLog' = spendLog \o ConsumedBy(block.extrinsics, last'.ret.applied)
    /\ auth' = AuthIdle
    /\ window' = [window EXCEPT
                     !.kind = IF last'.ret.applied < Len(block.extrinsics)
                              THEN "importing" ELSE "none",
                     !.misused = @ \/ window.kind = "authoring"]
    /\ applyLog' = applyLog \o SubSeq(block.extrinsics, 1, last'.ret.applied)
    /\ calls' = calls + 1 + Len(block.extrinsics)
    /\ UNCHANGED <<exec, phase>>

Next ==
    \/ \E g \in GenesisLists : Build(g)
    \/ BuildGenesisBlock
    \/ \E tx \in Transactions(KnownRefs(storage, spendLog)) : ValidateTransaction(tx)
    \/ \E tx \in Transactions(KnownRefs(storage, spendLog)) : ApplyTuxedoTransaction(tx)
    \/ OpenBlock(Header(NextNumber(storage), ZeroHash, ZeroHash))
    \/ \E tx \in Transactions(KnownRefs(storage, spendLog)) : ApplyExtrinsic(tx)
    \/ CloseBlock
    \/ \E xs \in ExtrinsicLists(KnownRefs(storage, spendLog),
                                Min(MaxBlockLen, Budget(exec) - calls - 1)) :
          \E h \in BlockHeaders(exec, storage, NextNumber(storage), xs) :
             ExecuteBlock(Block(h, xs))

Spec == Init /\ [][Next]_vars

\* ------------------------------------------------ authoring of one block
\* The node after the development genesis, with its first block just opened,
\* and the authoring calls only.
GenesisStorage ==
    build_genesis_block(build(EmptyStorage, development_genesis_transactions).st).st
FirstHeader == Header(NextNumber(GenesisStorage), ZeroHash, ZeroHash)

InitAuthoring ==
    /\ exec \in {"core", "runtime"}
    /\ phase = "running"
    /\ storage = open_block(GenesisStorage, FirstHeader).st
    /\ last = Call("open_block", <<>>, Some(FirstHeader), Ok)
    /\ pre = GenesisStorage
    /\ spendLog = <<>>
    /\ auth = [active |-> TRUE, closed |-> FALSE, pre |-> GenesisStorage, xs |-> <<>>]
    /\ window = [NoWindow EXCEPT !.kind = "authoring", !.opened = Some(FirstHeader),
                                 !.open = TRUE]
    /\ applyLog = <<>>
    /\ calls = 0

NextAuthoring ==
    \/ \E tx \in Transactions(KnownRefs(storage, spendLog)) : ApplyExtrinsic(tx)
    \/ CloseBlock
    \/ OpenBlock(Header(NextNumber(storage), ZeroHash, ZeroHash))

SpecAuthoring == InitAuthoring /\ [][NextAuthoring]_vars

\* --------------------------------------------------------- genesis only
\* Genesis construction alone, over more genesis transaction lists.
GenesisCandidatesOnly ==
    GenesisCandidates \cup {Transaction(<<>>, <<Output(100), Output(214)>>),
                            Transaction(<<>>, <<Output(100)>>)}
GenesisListsOnly == UNION {[1..n -> GenesisCandidatesOnly] : n \in 0..MaxGenesisOnly}

NextGenesis ==
    \/ \E g \in GenesisListsOnly : Build(g)
    \/ BuildGenesisBlock

SpecGenesis == Init /\ [][NextGenesis]_vars

\* ------------------------------------------------------ the pool's view
\* The tuxedo-core node after the development genesis, given transactions
\* that may spend outputs of transactions not applied yet: parents spend at
\* most the genesis output, children spend an output of a parent, alone or
\* with one more input.
PoolParents ==
    {t \in Transactions({DecodeOutputRef(k) : k \in DOMAIN GenesisStorage.utxo}) :
        Len(t.inputs) <= 1}
PoolParentRefs == UNION {Range(OutputRefsOf(t)) : t \in PoolParents}
PoolChildren ==
    {Transaction(<<Input(r)>>, <<Output(314)>>) : r \in PoolParentRefs}
    \cup UNION {{Transaction(<<Input(r), Input(q)>>, <<Output(314)>>) :
                    q \in {r} \cup KnownRefs(GenesisStorage, <<>>)} :
                 r \in PoolParentRefs}
PoolTransactions == PoolParents \cup PoolChildren

RECURSIVE PoolBlocks(_)
PoolBlocks(n) ==
    {<<>>} \cup
    (IF n <= 0 THEN {}
     ELSE {<<t>> \o rest : t \in PoolTransactions, rest \in PoolBlocks(n - 1)})

InitPool ==
    /\ exec = "core"
    /\ phase = "running"
    /\ storage = GenesisStorage
    /\ last = Call("build_genesis_block", <<>>, None,
                   build_genesis_block(build(EmptyStorage,
                                             development_genesis_transactions).st).ret)
    /\ pre = build(EmptyStorage, development_genesis_transactions).st
    /\ spendLog = <<>>
    /\ auth = AuthIdle
    /\ window = NoWindow
    /\ applyLog = <<>>
    /\ calls = 0

NextPool ==
    \/ \E tx \in PoolTransactions : ValidateTransaction(tx)
    \/ \E tx \in PoolTransactions : ApplyTuxedoTransaction(tx)
    \/ \E xs \in PoolBlocks(Min(MaxBlockLen, Budget(exec) - calls - 1)) :
          \E h \in BlockHeaders(exec, storage, NextNumber(storage), xs) :
             ExecuteBlock(Block(h, xs))

SpecPool == InitPool /\ [][NextPool]_vars

\* ------------------------------------------------------ the UTXO set alone
\* peek_utxo, consume_utxo and store_utxo called on small UTXO sets.
UtxoRefs ==
    {OutputRef(ZeroHash, 0), OutputRef(ZeroHash, 1),
     OutputRef(hash_of(EncodeTransaction(development_genesis_transactions[1])), 0)}
UtxoOutputs == {Output(100), Output(314)}
UtxoSets ==
    UNION {[{EncodeOutputRef(r) : r \in refs} -> {EncodeOutput(o) : o \in UtxoOutputs}]
              : refs \in SUBSET UtxoRefs}

InitUtxoSet ==
    /\ exec \in {"core", "runtime"}
    /\ phase = "running"
    /\ storage \in {[EmptyStorage EXCEPT !.utxo = u, !.height = Some(0)] : u \in UtxoSets}
    /\ last = Call("none", <<>>, None, Ok)
    /\ pre = storage
    /\ spendLog = <<>>
    /\ auth = AuthIdle
    /\ window = NoWindow
    /\ applyLog = <<>>
    /\ calls = 0

UtxoCall(op, output_ref, r) ==
    /\ storage' = r.st
    /\ last' = Call(op, <<output_ref>>, None, r.ret)
    /\ pre' = storage
    /\ UNCHANGED <<exec, phase, spendLog, auth, window, applyLog, calls>>

PeekUtxo(output_ref) ==
    UtxoCall("peek_utxo", output_ref, TransparentUtxoSet_peek_utxo(storage, output_ref))
ConsumeUtxo(output_ref) ==
    UtxoCall("consume_utxo", output_ref,
             TransparentUtxoSet_consume_utxo(storage, output_ref))
StoreUtxo(output_ref, output) ==
    UtxoCall("store_utxo", output_ref,
             TransparentUtxoSet_store_utxo(storage, output_ref, output))

NextUtxoSet ==
    \/ \E r \in UtxoRefs : PeekUtxo(r)
    \/ \E r \in UtxoRefs : ConsumeUtxo(r)
    \/ \E r \in UtxoRefs : \E o \in UtxoOutputs : StoreUtxo(r, o)

SpecUtxoSet == InitUtxoSet /\ [][NextUtxoSet]_vars

\* ------------------------------------------------- the validator alone
\* The tuxedo-core validator and applier given small transactions on small
\* UTXO sets, the sets that hold outputs of those transactions included.
MaxUtxoEntries == 3
ValidatorInputLists ==
    {<<>>, <<Input(OutputRef(ZeroHash, 0))>>,
     <<Input(OutputRef(ZeroHash, 0)), Input(OutputRef(ZeroHash, 0))>>,
     <<Input(OutputRef(ZeroHash, 0)), Input(OutputRef(ZeroHash, 1))>>}
ValidatorOutputLists == {<<Output(100)>>, <<Output(100), Output(314)>>}
ValidatorTransactions ==
    {Transaction(i, o) : i \in ValidatorInputLists, o \in ValidatorOutputLists}
ValidatorKeys ==
    {EncodeOutputRef(OutputRef(ZeroHash, 0)), EncodeOutputRef(OutputRef(ZeroHash, 1))}
        \cup {EncodeOutputRef(OutputRef(hash_of(EncodeTransaction(tx)), 0))
                 : tx \in ValidatorTransactions}
ValidatorUtxoSets ==
    {[k \in keys |-> EncodeOutput(Output(100))]
        : keys \in {ks \in SUBSET ValidatorKeys : Cardinality(ks) <= MaxUtxoEntries}}

InitValidator ==
    /\ exec = "core"
    /\ phase = "running"
    /\ storage \in {[EmptyStorage EXCEPT !.utxo = u, !.height = Some(0)]
                       : u \in ValidatorUtxoSets}
    /\ last = Call("none", <<>>, None, Ok)
    /\ pre = storage
    /\ spendLog = <<>>
    /\ auth = AuthIdle
    /\ window = NoWindow
    /\ applyLog = <<>>
    /\ calls = MaxCalls - 1

NextValidator ==
    \/ \E tx \in ValidatorTransactions : ValidateTransaction(tx)
    \/ \E tx \in ValidatorTransactions : ApplyTuxedoTransaction(tx)

SpecValidator == InitValidator /\ [][NextValidator]_vars

\* =============================================================== properties
\* What the last call was about.
LastTx == last.txs[1]
LastIsValidate == last.op = "validate_transaction"
LastIsApply == last.op \in {"apply_tuxedo_transaction", "apply_extrinsic"}
LastIsImport == last.op = "execute_block"

HasDuplicateInput(tx) ==
    \E i, j \in 1..Len(tx.inputs) : i # j /\ tx.inputs[i] = tx.inputs[j]
HasMissingInput(s, tx) ==
    \E i \in 1..Len(tx.inputs) : EncodeInput(tx.inputs[i]) \notin DOMAIN s.utxo
HasPreExistingOutput(s, tx) ==
    \E i \in 1..Len(tx.outputs) :
        hash_of(EncodeTransaction(tx)) \o <<i - 1>> \in DOMAIN s.utxo

\* C1 (as stated): under the tuxedo-core Executive no output reference is
\* consumed by two successfully applied transactions.
C1_NoDoubleSpend ==
    exec = "core" =>
        \A i, j \in 1..Len(spendLog) : spendLog[i] = spendLog[j] => i = j

\* C2: under the tuxedo-core Executive a transaction that lists the same input
\* twice is rejected with DuplicateInput by the validator and by the applier,
\* whatever the UTXO set holds.
C2_DuplicateInputRejected ==
    (exec = "core" /\ (LastIsValidate \/ LastIsApply) /\ HasDuplicateInput(LastTx))
        => last.ret = Err("DuplicateInput")

C2_Witness ==
    /\ exec = "core"
    /\ LastIsApply
    /\ HasDuplicateInput(LastTx)
    /\ ~HasMissingInput(pre, LastTx)
    /\ last.ret = Err("DuplicateInput")

C4_MissingInputAsStated ==
    exec = "core" =>
        /\ (LastIsValidate /\ HasMissingInput(pre, LastTx))
              => (last.ret.tag = "Ok" /\ Unwrap(last.ret.valid).requires # <<>>)
        /\ (LastIsApply /\ HasMissingInput(pre, LastTx))
              => last.ret = Err("MissingInput")

\* C4 (amended): the same, for a transaction that repeats no input and none of
\* whose derived output references is already in the UTXO set.
C4_MissingInput ==
    exec = "core" =>
        /\ (LastIsValidate /\ HasMissingInput(pre, LastTx)
               /\ ~HasDuplicateInput(LastTx) /\ ~HasPreExistingOutput(pre, LastTx))
              => (last.ret.tag = "Ok" /\ Unwrap(last.ret.valid).requires # <<>>)
        /\ (LastIsApply /\ HasMissingInput(pre, LastTx)
               /\ ~HasDuplicateInput(LastTx) /\ ~HasPreExistingOutput(pre, LastTx))
              => (last.ret = Err("MissingInput") /\ storage.utxo = pre.utxo)

C4_Witness ==
    /\ exec = "core"
    /\ last.op = "apply_tuxedo_transaction"
    /\ HasMissingInput(pre, LastTx)
    /\ pre.utxo # EmptyUtxo
    /\ last.ret = Err("MissingInput")

\* C5 (as stated): apply_tuxedo_transaction of the runtime Executive does the
\* full verification of the transaction: one that names a missing input,
\* repeats an input, or re-creates an existing output is rejected and writes
\* nothing.
C5_RuntimeApplyVerifies ==
    (/\ exec = "runtime"
     /\ last.op = "apply_tuxedo_transaction"
     /\ \/ HasMissingInput(pre, LastTx)
        \/ HasDuplicateInput(LastTx)
        \/ HasPreExistingOutput(pre, LastTx))
        => (last.ret.tag = "Err" /\ storage = pre)

\* The UTXO set U without the inputs of tx and with the outputs of tx under
\* the references (hash(tx), 0), (hash(tx), 1), ...
ExpectedUtxo(u, tx) ==
    LET ins == {tx.inputs[i].output_ref.tx_hash \o <<tx.inputs[i].output_ref.index>>
                   : i \in 1..Len(tx.inputs)}
        out(i) == hash_of(EncodeTransaction(tx)) \o <<i - 1>>
        outs == {out(i) : i \in 1..Len(tx.outputs)}
    IN  [k \in ((DOMAIN u) \ ins) \cup outs |->
            IF k \in outs
            THEN <<tx.outputs[CHOOSE i \in 1..Len(tx.outputs) : out(i) = k].payload>>
            ELSE u[k]]

\* C6: after a successful apply_tuxedo_transaction(T) from UTXO set U the set is
\* exactly U minus T's inputs plus T's outputs under (hash(T), i), every
\* other entry is as before, and the header, height and accumulator slots are
\* untouched.
C6_ApplyFrame ==
    (last.op = "apply_tuxedo_transaction" /\ last.ret.tag = "Ok") =>
        /\ storage.utxo = ExpectedUtxo(pre.utxo, LastTx)
        /\ storage.header = pre.header
        /\ storage.height = pre.height
        /\ storage.extrinsics = pre.extrinsics

C6_Witness ==
    /\ exec = "core"
    /\ last.op = "apply_tuxedo_transaction"
    /\ last.ret.tag = "Ok"
    /\ Len(LastTx.inputs) >= 1
    /\ Len(LastTx.outputs) = 2
    /\ Cardinality(DOMAIN pre.utxo) >= 2

\* C7: validate_transaction, and validate_tuxedo_transaction under it, leaves
\* the storage as it found it, and validating the same transaction again
\* gives the same verdict.
C7_ValidationReadOnly ==
    LastIsValidate =>
        /\ storage = pre
        /\ validate_tuxedo_transaction(exec, storage, LastTx) = last.ret

C7_Witness ==
    /\ exec = "core"
    /\ LastIsValidate
    /\ last.ret.tag = "Ok"
    /\ Len(LastTx.inputs) >= 1
    /\ Unwrap(last.ret.valid).requires = <<>>

\* The storage after the first n of xs have been applied in order.
RECURSIVE AppliedPrefix(_, _, _, _)
AppliedPrefix(e, s, xs, n) ==
    IF n = 0 THEN s
    ELSE apply_tuxedo_transaction(e, AppliedPrefix(e, s, xs, n - 1), xs[n]).st

Rejected(e, s, xs, k) ==
    apply_tuxedo_transaction(e, AppliedPrefix(e, s, xs, k - 1), xs[k]).ret.tag # "Ok"

\* The position of the first extrinsic of xs the applier rejects, 0 if none.
FirstRejected(e, s, xs) ==
    IF \E k \in 1..Len(xs) : Rejected(e, s, xs, k)
    THEN CHOOSE k \in 1..Len(xs) :
            Rejected(e, s, xs, k) /\ \A j \in 1..(k - 1) : ~Rejected(e, s, xs, j)
    ELSE 0

\* C8: when the applier rejects an extrinsic of a block, execute_block aborts
\* at the first such extrinsic: the ones before it are applied, neither it nor
\* any later one is, and the import does not end Verified.
C8_ImportAbortsAtRejection ==
    (LastIsImport /\ FirstRejected(exec, pre, last.txs) # 0) =>
        /\ last.ret.tag = "Panic"
        /\ last.ret.applied = FirstRejected(exec, pre, last.txs) - 1
        /\ storage.utxo = AppliedPrefix(exec, pre, last.txs, last.ret.applied).utxo

C8_Witness ==
    /\ LastIsImport
    /\ Len(last.txs) = 2
    /\ FirstRejected(exec, pre, last.txs) = 1
    /\ apply_tuxedo_transaction(exec, pre, last.txs[2]).ret.tag = "Ok"
    /\ last.ret.tag = "Panic"
    /\ storage.utxo = pre.utxo

EncodedExtrinsics(xs) == [i \in 1..Len(xs) |-> EncodeTransaction(xs[i])]

\* C9: execute_block ends Verified exactly when every extrinsic applied, the
\* header's state root is the root of the storage after applying them, and the
\* header's extrinsics root is the root of the encoded extrinsic list; with
\* every extrinsic applied, a wrong state root or a wrong extrinsics root makes
\* it end Failed.
C9_VerifiedIffRootsMatch ==
    LastIsImport =>
        /\ last.ret.tag \in {"Ok", "Panic"}
        /\ last.ret.tag = "Ok" <=>
              /\ last.ret.applied = Len(last.txs)
              /\ FirstRejected(exec, pre, last.txs) = 0
              /\ Unwrap(last.hdr).state_root = storage_root(storage)
              /\ Unwrap(last.hdr).extrinsics_root
                    = ordered_trie_root(EncodedExtrinsics(last.txs))

C9_Witness ==
    /\ LastIsImport
    /\ Len(last.txs) >= 1
    /\ last.ret.applied = Len(last.txs)
    /\ Unwrap(last.hdr).state_root = storage_root(storage)
    /\ Unwrap(last.hdr).extrinsics_root # ordered_trie_root(EncodedExtrinsics(last.txs))
    /\ last.ret.tag = "Panic"

\* The import, from the storage the author started from, of the block the
\* author has just closed.
ImportOfAuthored == execute_block(exec, auth.pre, Block(Unwrap(last.ret.header), auth.xs))
AuthoredAndClosed == last.op = "close_block" /\ auth.active /\ auth.closed

\* C10 (as stated): for every pre-state S and extrinsics x1..xn each accepted
\* by apply_extrinsic, the header H that open_block; apply_extrinsic*;
\* close_block returns from S makes execute_block(Block(H, [x1..xn])) from S end
\* Verified with the storage the authoring run ended with.
C10_AuthorImportAsStated ==
    AuthoredAndClosed =>
        (ImportOfAuthored.ret.tag = "Ok" /\ ImportOfAuthored.st = storage)

\* C10 (amended): the same, for every pre-state S in which the
\* extrinsics-accumulator slot is absent.
C10_AuthorImport ==
    (AuthoredAndClosed /\ ~IsSome(auth.pre.extrinsics)) =>
        (ImportOfAuthored.ret.tag = "Ok" /\ ImportOfAuthored.st = storage)

C10_Witness ==
    /\ AuthoredAndClosed
    /\ ~IsSome(auth.pre.extrinsics)
    /\ Len(auth.xs) >= 1
    /\ Len(auth.xs[1].inputs) >= 1
    /\ ImportOfAuthored.ret.tag = "Ok"

\* C12: after close_block returns, the header slot and the accumulator slot
\* are absent, and the height slot is present and holds the number of the
\* header given to the matching open_block.
C12_SlotsAfterClose ==
    (last.op = "close_block" /\ last.ret.tag = "Ok") =>
        /\ ~IsSome(storage.header)
        /\ ~IsSome(storage.extrinsics)
        /\ IsSome(storage.height)
        /\ window.kind = "closed" => storage.height = Some(Unwrap(window.opened).number)

C12_Witness ==
    /\ last.op = "close_block"
    /\ last.ret.tag = "Ok"
    /\ window.kind = "closed"
    /\ IsSome(pre.extrinsics)
    /\ pre.height # Some(0)
    /\ storage.height = pre.height

OutsideWindow == window.kind \in {"none", "closed"}
TransientSlotsAbsent == ~IsSome(storage.header) /\ ~IsSome(storage.extrinsics)

\* C13 (as stated): across any sequence of genesis build, open_block,
\* apply_extrinsic, close_block and execute_block, in every state outside a
\* block window the header slot and the accumulator slot are absent.
C13_TransientSlotsAsStated == OutsideWindow => TransientSlotsAbsent

\* C13 (amended): the same, once the genesis block has been built, for
\* sequences in which apply_extrinsic is called only inside an authoring window
\* and execute_block only outside one.
C13_TransientSlots ==
    (phase = "running" /\ OutsideWindow /\ ~window.misused) => TransientSlotsAbsent

C13_Witness ==
    /\ exec = "core"
    /\ phase = "running"
    /\ window.kind = "closed"
    /\ ~window.misused
    /\ ~window.stale
    /\ last.op = "close_block"
    /\ IsSome(pre.extrinsics)
    /\ Len(window.accepted) < Len(Unwrap(pre.extrinsics))
    /\ TransientSlotsAbsent

\* The list the accumulator slot of storage s holds.
Accumulated(s) == IF IsSome(s.extrinsics) THEN Unwrap(s.extrinsics) ELSE <<>>

\* C14: close_block returns the header open_block stored with only the two
\* roots changed: extrinsics_root is the ordered root over the accumulator's
\* list, which is in the order of the apply_extrinsic calls and is read before
\* the slot is cleared; state_root is the root of the storage with the header
\* slot and the accumulator slot both cleared.
C14_ClosedHeader ==
    (last.op = "close_block" /\ last.ret.tag = "Ok") =>
        /\ Unwrap(last.ret.header) =
              [Unwrap(pre.header) EXCEPT
                  !.extrinsics_root = ordered_trie_root(Accumulated(pre)),
                  !.state_root = storage_root([pre EXCEPT !.header = None,
                                                          !.extrinsics = None])]
        /\ Unwrap(last.ret.header).state_root = storage_root(storage)
        /\ window.kind = "closed" =>
              Unwrap(pre.header) = Unwrap(window.opened)
        /\ (window.kind = "closed" /\ ~window.stale) =>
              Accumulated(pre) = [i \in 1..Len(window.submitted) |->
                                     EncodeTransaction(window.submitted[i])]

C14_Witness ==
    /\ last.op = "close_block"
    /\ last.ret.tag = "Ok"
    /\ window.kind = "closed"
    /\ ~window.stale
    /\ Len(window.submitted) = 2
    /\ window.submitted[1] # window.submitted[2]
    /\ window.accepted = window.submitted

\* C15 (as stated): an extrinsic the applier rejects inside apply_extrinsic
\* makes the call return an error and is not included: the extrinsics root the
\* following close_block writes covers only the extrinsics whose
\* apply_extrinsic call succeeded since the matching open_block.
C15_RejectedNotIncluded ==
    /\ (last.op = "apply_extrinsic" /\ last.ret.tag # "Ok") =>
          (last.ret.tag = "Err" /\ Accumulated(storage) = Accumulated(pre))
    /\ (last.op = "close_block" /\ last.ret.tag = "Ok"
            /\ window.kind = "closed" /\ ~window.stale) =>
          Unwrap(last.ret.header).extrinsics_root =
              ordered_trie_root([i \in 1..Len(window.accepted) |->
                                    EncodeTransaction(window.accepted[i])])

\* The transactions the applier had accepted when the last call started.
AppliedBefore ==
    IF LastIsApply /\ last.ret.tag = "Ok"
    THEN Range(SubSeq(applyLog, 1, Len(applyLog) - 1))
    ELSE Range(applyLog)

OutputsOf(txs) ==
    LET key(n, i) == hash_of(EncodeTransaction(txs[n])) \o <<i - 1>>
        slots == UNION {{<<n, i>> : i \in 1..Len(txs[n].outputs)} : n \in 1..Len(txs)}
    IN  [k \in {key(p[1], p[2]) : p \in slots} |->
            LET p == CHOOSE q \in slots : key(q[1], q[2]) = k
            IN  <<txs[p[1]].outputs[p[2]].payload>>]

Inputless(txs) == \A n \in 1..Len(txs) : Len(txs[n].inputs) = 0

\* C17: for every list of inputless genesis transactions, after build the
\* UTXO set holds exactly the entries (hash(tx), i) -> tx.outputs[i] (for the
\* development genesis: one entry, (hash(tx), 0), with payload 314), the
\* accumulator slot holds the whole genesis list, and the height slot holds 0.
C17_GenesisResult ==
    (last.op = "build" /\ Inputless(last.txs)) =>
        /\ last.ret.tag = "Ok"
        /\ storage.utxo = OutputsOf(last.txs)
        /\ last.txs = development_genesis_transactions =>
              storage.utxo = [k \in {hash_of(EncodeTransaction(last.txs[1])) \o <<0>>}
                                 |-> <<314>>]
        /\ IsSome(storage.extrinsics)
        /\ [i \in 1..Len(Accumulated(storage)) |->
               <<Len(Accumulated(storage)[i])>> \o Accumulated(storage)[i]]
              = [i \in 1..Len(last.txs) |-> EncodeTransaction(last.txs[i])]
        /\ storage.height = Some(0)

C17_Witness ==
    /\ last.op = "build"
    /\ Inputless(last.txs)
    /\ Len(last.txs) = 3
    /\ Cardinality(DOMAIN storage.utxo) = 4
    /\ last.ret.tag = "Ok"

\* C18: genesis build returns an error for every genesis list that holds a
\* transaction with a non-empty inputs list, wherever it stands in the list.
C18_GenesisInputsRejected ==
    (last.op = "build" /\ ~Inputless(last.txs)) =>
        last.ret = Err("Genesis transactions must not have any inputs.")

C18_Witness ==
    /\ last.op = "build"
    /\ Len(last.txs) = 3
    /\ Inputless(SubSeq(last.txs, 1, 2))
    /\ Len(last.txs[3].inputs) # 0
    /\ last.ret.tag = "Err"
    /\ phase = "genesis_failed"

\* The encoded references of the inputs absent from UTXO set u, in input order.
RECURSIVE AbsentRefs(_, _)
AbsentRefs(u, inputs) ==
    IF inputs = <<>> THEN <<>>
    ELSE LET key == Head(inputs).output_ref.tx_hash \o <<Head(inputs).output_ref.index>>
         IN  (IF key \in DOMAIN u THEN <<>> ELSE <<key>>) \o AbsentRefs(u, Tail(inputs))

\* C19: every Ok verdict of validate_tuxedo_transaction (tuxedo-core) has
\* requires equal to the encoded references of the inputs absent from the UTXO
\* set, in input order, so requires is empty exactly when every input is
\* present.
C19_RequiresAreAbsentInputs ==
    (exec = "core" /\ LastIsValidate /\ last.ret.tag = "Ok") =>
        /\ Unwrap(last.ret.valid).requires = AbsentRefs(pre.utxo, LastTx.inputs)
        /\ Unwrap(last.ret.valid).requires = <<>> <=> ~HasMissingInput(pre, LastTx)

C19_Witness ==
    /\ exec = "core"
    /\ LastIsValidate
    /\ last.ret.tag = "Ok"
    /\ Len(LastTx.inputs) = 2
    /\ EncodeInput(LastTx.inputs[1]) \in DOMAIN pre.utxo
    /\ Unwrap(last.ret.valid).requires = <<EncodeInput(LastTx.inputs[2])>>

\* Whether the genesis loop, run over txs from storage s, writes an output to
\* a key that is present at the time of the write.
RECURSIVE GenesisOverwrites(_, _)
GenesisOverwrites(s, txs) ==
    IF txs = <<>> \/ Len(Head(txs).inputs) # 0 THEN FALSE
    ELSE \/ HasPreExistingOutput(s, Head(txs))
         \/ GenesisOverwrites(StoreOutputs(s, Head(txs), 0), Tail(txs))

\* C20 (as stated): in any sequence of genesis build followed by applier calls
\* (tuxedo-core Executive), neither the genesis write nor store_utxo writes to
\* a key that is present in the UTXO set at the time of the write.
C20_NoOverwrite ==
    /\ last.op = "build" => ~GenesisOverwrites(pre, last.txs)
    /\ (exec = "core" /\ LastIsApply /\ last.ret.tag = "Ok")
          => ~HasPreExistingOutput(pre, LastTx)
    /\ (exec = "core" /\ LastIsImport) =>
          \A k \in 1..last.ret.applied :
              ~HasPreExistingOutput(AppliedPrefix(exec, pre, last.txs, k - 1), last.txs[k])

\* C21: after genesis the applier is the only way into the UTXO set:
\* open_block, close_block and validate_transaction (and the genesis block
\* construction) leave every UTXO entry as it was, and apply_extrinsic and
\* execute_block change the UTXO set exactly as apply_tuxedo_transaction does
\* on the extrinsics they apply.
C21_OnlyApplierMutates ==
    /\ last.op \in {"open_block", "close_block", "validate_transaction",
                     "build_genesis_block"}
          => storage.utxo = pre.utxo
    /\ last.op = "apply_extrinsic"
          => storage.utxo = apply_tuxedo_transaction(exec, pre, LastTx).st.utxo
    /\ LastIsImport
          => storage.utxo = AppliedPrefix(exec, pre, last.txs, last.ret.applied).utxo

C21_Witness ==
    /\ exec = "core"
    /\ LastIsImport
    /\ last.ret.applied = 1
    /\ Len(last.txs) = 2
    /\ storage.utxo # pre.utxo
    /\ storage.utxo = apply_tuxedo_transaction(exec, pre, last.txs[1]).st.utxo

\* Input j of t2 names an output of t1.
RefersTo(t2, j, t1) ==
    /\ t2.inputs[j].output_ref.tx_hash = hash_of(EncodeTransaction(t1))
    /\ t2.inputs[j].output_ref.index < Len(t1.outputs)
DependsOn(t2, t1) == \E j \in 1..Len(t2.inputs) : RefersTo(t2, j, t1)

\* The transactions applied before the last call, oldest first.
PrevApplied ==
    IF LastIsApply /\ last.ret.tag = "Ok"
    THEN SubSeq(applyLog, 1, Len(applyLog) - 1)
    ELSE applyLog
JustApplied(t1) == PrevApplied # <<>> /\ PrevApplied[Len(PrevApplied)] = t1

\* What C22 says of the validator: an input of T2 naming an absent output of
\* T1 is in requires(T2) as the matching element of provides(T1); right after
\* T1 was applied it is not in requires(T2).
PoolOrderingOfValidator ==
    (exec = "core" /\ LastIsValidate /\ last.ret.tag = "Ok") =>
        \A t1 \in PoolParents : \A j \in 1..Len(LastTx.inputs) :
            RefersTo(LastTx, j, t1) =>
                /\ (EncodeInput(LastTx.inputs[j]) \notin DOMAIN pre.utxo
                       /\ core_validate_tuxedo_transaction(pre, t1).tag = "Ok") =>
                      /\ \E n \in 1..Len(Unwrap(last.ret.valid).requires) :
                            Unwrap(last.ret.valid).requires[n] = EncodeInput(LastTx.inputs[j])
                      /\ Unwrap(core_validate_tuxedo_transaction(pre, t1).valid)
                            .provides[LastTx.inputs[j].output_ref.index + 1]
                            = EncodeInput(LastTx.inputs[j])
                /\ JustApplied(t1) =>
                      \A n \in 1..Len(Unwrap(last.ret.valid).requires) :
                         Unwrap(last.ret.valid).requires[n] # EncodeInput(LastTx.inputs[j])

\* T2 in the block <<T1, T2>>, with T1 accepted.
SecondOfBlock(t1, t2) ==
    /\ LastIsImport
    /\ last.txs = <<t1, t2>>
    /\ apply_tuxedo_transaction(exec, pre, t1).ret.tag = "Ok"

\* C22 (as stated): besides the above, after Applier(T1) succeeds,
\* Applier(T2) succeeds when T2's other inputs are present, also when both are
\* in the same block.
C22_PoolOrderingAsStated ==
    /\ PoolOrderingOfValidator
    /\ (exec = "core" /\ LastIsApply) =>
          \A t1 \in PoolParents :
              (JustApplied(t1) /\ DependsOn(LastTx, t1) /\ ~HasMissingInput(pre, LastTx))
                  => last.ret.tag = "Ok"
    /\ (exec = "core" /\ LastIsImport /\ Len(last.txs) = 2 /\ last.ret.applied # 2) =>
         ~(/\ SecondOfBlock(last.txs[1], last.txs[2])
           /\ DependsOn(last.txs[2], last.txs[1])
           /\ ~HasMissingInput(AppliedPrefix(exec, pre, last.txs, 1), last.txs[2]))

\* C22 (amended): the same, the applier's success being claimed for a T2 that
\* repeats no input and has no output reference already in the UTXO set.
C22_PoolOrdering ==
    /\ PoolOrderingOfValidator
    /\ (exec = "core" /\ LastIsApply) =>
          \A t1 \in PoolParents :
              (/\ JustApplied(t1) /\ DependsOn(LastTx, t1) /\ ~HasMissingInput(pre, LastTx)
               /\ ~HasDuplicateInput(LastTx) /\ ~HasPreExistingOutput(pre, LastTx))
                  => last.ret.tag = "Ok"
    /\ (exec = "core" /\ LastIsImport /\ Len(last.txs) = 2 /\ last.ret.applied # 2) =>
         ~(/\ SecondOfBlock(last.txs[1], last.txs[2])
           /\ DependsOn(last.txs[2], last.txs[1])
           /\ ~HasMissingInput(AppliedPrefix(exec, pre, last.txs, 1), last.txs[2])
           /\ ~HasDuplicateInput(last.txs[2])
           /\ ~HasPreExistingOutput(AppliedPrefix(exec, pre, last.txs, 1), last.txs[2]))

C22_Witness ==
    /\ exec = "core"
    /\ LastIsApply
    /\ last.ret.tag = "Ok"
    /\ Len(LastTx.inputs) = 2
    /\ \E t1 \in PoolParents :
          JustApplied(t1) /\ Len(t1.outputs) = 2 /\ RefersTo(LastTx, 1, t1)
                          /\ ~RefersTo(LastTx, 2, t1)

\* C23: every Ok verdict of validate_tuxedo_transaction, of either Executive
\* and with requires empty or not, has provides equal to the encoded
\* references (hash(T), i) for i = 0 .. number of outputs - 1 in index order,
\* priority 0, the maximum longevity and propagate true.
C23_VerdictFields ==
    (LastIsValidate /\ last.ret.tag = "Ok") =>
        /\ Unwrap(last.ret.valid).provides =
              [i \in 1..Len(LastTx.outputs) |->
                  hash_of(EncodeTransaction(LastTx)) \o <<i - 1>>]
        /\ Unwrap(last.ret.valid).priority = 0
        /\ Unwrap(last.ret.valid).longevity = "TransactionLongevity::MAX"
        /\ Unwrap(last.ret.valid).propagate = TRUE

C23_Witness ==
    /\ LastIsValidate
    /\ last.ret.tag = "Ok"
    /\ Len(Unwrap(last.ret.valid).requires) = 1
    /\ Len(LastTx.inputs) = 2
    /\ Len(Unwrap(last.ret.valid).provides) = 2
    /\ Unwrap(last.ret.valid).provides[1] # Unwrap(last.ret.valid).provides[2]

\* The reference the last UTXO set call was given.
LastRef == last.txs[1]

\* C24: peek_utxo never mutates the set: the storage after a peek is the
\* storage before it, and a second peek of the same reference with no write in
\* between returns what the first returned.
C24_PeekReadOnly ==
    last.op = "peek_utxo" =>
        /\ storage = pre
        /\ TransparentUtxoSet_peek_utxo(storage, LastRef).ret = last.ret
        /\ TransparentUtxoSet_peek_utxo(storage, LastRef).st = pre

C24_Witness ==
    /\ last.op = "peek_utxo"
    /\ IsSome(last.ret.output)
    /\ Cardinality(DOMAIN storage.utxo) = 2
    /\ last.ret.output = Some(Output(314))

\* C25: consume_utxo(ref) removes the entry at ref when present and returns
\* the Output it held; when the entry is absent it returns nothing, raises no
\* error and leaves storage unchanged; in both cases a following peek of ref
\* returns nothing and every other key is as before.
C25_Consume ==
    last.op = "consume_utxo" =>
        LET key == LastRef.tx_hash \o <<LastRef.index>>
        IN  /\ last.ret.tag = "Ok"
            /\ key \in DOMAIN pre.utxo =>
                  last.ret.output = Some([payload |-> pre.utxo[key][1]])
            /\ key \notin DOMAIN pre.utxo =>
                  (last.ret.output = None /\ storage = pre)
            /\ TransparentUtxoSet_peek_utxo(storage, LastRef).ret.output = None
            /\ key \notin DOMAIN storage.utxo
            /\ DOMAIN storage.utxo = (DOMAIN pre.utxo) \ {key}
            /\ \A k \in DOMAIN storage.utxo : storage.utxo[k] = pre.utxo[k]
            /\ storage.header = pre.header
            /\ storage.height = pre.height
            /\ storage.extrinsics = pre.extrinsics

C25_Witness ==
    /\ last.op = "consume_utxo"
    /\ last.ret.output = Some(Output(100))
    /\ Cardinality(DOMAIN pre.utxo) = 3
    /\ Cardinality(DOMAIN storage.utxo) = 2

\* The loop of the last execute_block run on the first k extrinsics of its
\* block, from the storage execute_block gives it.
InherentAbort == "Tried to execute opening inherent after switching to non-inherents."
ImportLoop(k) ==
    ApplyExtrinsics(exec, [pre EXCEPT !.header = last.hdr,
                                      !.height = Some(Unwrap(last.hdr).number)],
                    SubSeq(last.txs, 1, k), 0, FALSE)
\* The extrinsics the loop on the first k extrinsics got to.
ImportReached(k) == 1..Min(k, ImportLoop(k).applied + 1)

\* C26: in execute_block the flag 'finished with opening inherents' starts
\* false, is true from the first non-inherent extrinsic the loop meets and never
\* returns to false; an inherent met while it is true aborts the import; and no
\* block aborts that way, as no transaction is classified as inherent.
C26_InherentPrefix ==
    LastIsImport =>
        /\ ImportLoop(0).finished = FALSE
        /\ \A k \in 1..Len(last.txs) :
              /\ ImportLoop(k).finished =
                    (\E i \in ImportReached(k) : ~current_tx_is_inherent(last.txs[i]))
              /\ ImportLoop(k - 1).finished => ImportLoop(k).finished
              /\ ( /\ ImportLoop(k - 1).panic = ""
                   /\ ImportLoop(k - 1).finished
                   /\ current_tx_is_inherent(last.txs[k]) )
                    => ImportLoop(k).panic = InherentAbort
              /\ ImportLoop(k).panic # InherentAbort
        /\ last.ret.err # InherentAbort

C26_Witness ==
    /\ LastIsImport
    /\ Len(last.txs) = 2
    /\ last.ret.applied = 2
    /\ ImportLoop(1).finished
    /\ ImportLoop(2).finished
    /\ Len(last.txs[2].inputs) = 0

LastIsClose == last.op = "close_block"

C28_HeightSlot ==
    /\ last.op = "build" => storage.height = Some(0)
    /\ last.op \in {"open_block", "execute_block"}
          => storage.height = Some(Unwrap(last.hdr).number)
    /\ last.op \notin {"none", "build", "open_block", "execute_block"}
          => (IsSome(pre.height) /\ storage.height = pre.height)
    /\ last.op # "none"
          => /\ IsSome(storage.height)
             /\ block_height(storage).tag = "Ok"
             /\ block_height(storage).number = Unwrap(storage.height)
    /\ phase = "built" => block_height(storage).number = 0

C28_Witness ==
    /\ last.op = "close_block"
    /\ pre.height = Some(2)
    /\ block_height(storage) = [tag |-> "Ok", number |-> 2]
    /\ window.opened = Some(Header(2, ZeroHash, ZeroHash))

ApplierErrors == {"DuplicateInput", "PreExistingOutput", "MissingInput"}

\* C29: whenever the tuxedo-core apply_tuxedo_transaction returns
\* DuplicateInput, PreExistingOutput or MissingInput, the UTXO set after the
\* call is the UTXO set before it: nothing was consumed, nothing stored.
C29_RejectionKeepsLedger ==
    (exec = "core" /\ LastIsApply /\ last.ret.tag = "Err") =>
        /\ last.ret.err \in ApplierErrors
        /\ storage.utxo = pre.utxo
        /\ last.op = "apply_tuxedo_transaction" => storage = pre
        /\ core_apply_tuxedo_transaction(pre, LastTx).st = pre

\* A rejected transaction that names an input of the set and has outputs.
C29_Witness ==
    /\ exec = "core"
    /\ last.op = "apply_tuxedo_transaction"
    /\ last.ret.tag = "Err"
    /\ last.ret.err = "MissingInput"
    /\ Len(LastTx.outputs) > 0
    /\ \E i \in 1..Len(LastTx.inputs) :
          EncodeOutputRef(LastTx.inputs[i].output_ref) \in DOMAIN pre.utxo
    /\ storage.utxo = pre.utxo

\* Two verdicts of validate_tuxedo_transaction agree: the same requires and
\* provides, or a rejection in both.
SameVerdict(a, b) ==
    IF a.tag = "Ok" /\ b.tag = "Ok"
    THEN /\ Unwrap(a.valid).requires = Unwrap(b.valid).requires
         /\ Unwrap(a.valid).provides = Unwrap(b.valid).provides
    ELSE a.tag # "Ok" /\ b.tag # "Ok"

\* C30 (as stated): the runtime Executive and the tuxedo-core Executive are
\* equivalent on the UTXO operations: on every UTXO set and transaction their
\* validate_tuxedo_transaction return the same verdict, and their
\* apply_tuxedo_transaction return the same result and leave the same UTXO set.
C30_ExecutivesAgree ==
    /\ last.op = "validate_transaction" =>
          SameVerdict(core_validate_tuxedo_transaction(pre, LastTx),
                      runtime_validate_tuxedo_transaction(pre, LastTx))
    /\ last.op = "apply_tuxedo_transaction" =>
          /\ core_apply_tuxedo_transaction(pre, LastTx).ret =
                runtime_apply_tuxedo_transaction(pre, LastTx).ret
          /\ core_apply_tuxedo_transaction(pre, LastTx).st.utxo =
                runtime_apply_tuxedo_transaction(pre, LastTx).st.utxo

\* C31: the tuxedo-core validator decides the duplicate-input check first and
\* the pre-existing-output check before the early return for missing inputs: a
\* transaction with a repeated input and a pre-existing output gets
\* DuplicateInput, and one with a missing input and a pre-existing output is
\* never returned Ok with a non-empty requires: it gets PreExistingOutput
\* (DuplicateInput when it repeats an input as well).
C31_CheckPrecedence ==
    (exec = "core" /\ LastIsValidate) =>
        /\ (HasDuplicateInput(LastTx) /\ HasPreExistingOutput(pre, LastTx))
              => last.ret = Err("DuplicateInput")
        /\ (HasMissingInput(pre, LastTx) /\ HasPreExistingOutput(pre, LastTx))
              => /\ last.ret.tag = "Err"
                 /\ ~HasDuplicateInput(LastTx) => last.ret = Err("PreExistingOutput")
                 /\ HasDuplicateInput(LastTx) => last.ret = Err("DuplicateInput")

\* A transaction with all three defects at once.
C31_Witness ==
    /\ exec = "core"
    /\ LastIsValidate
    /\ HasDuplicateInput(LastTx)
    /\ HasPreExistingOutput(pre, LastTx)
    /\ HasMissingInput(pre, LastTx)
    /\ last.ret = Err("DuplicateInput")

\* The keys of the outputs of tx, as the validator lists them in provides.
ProvidedKeys(tx) ==
    LET refs == OutputRefsOf(tx)
    IN  [i \in 1..Len(refs) |-> EncodeOutputRef(refs[i])]

C33_BuildAllOrNothing ==
    (last.op = "build" /\ last.ret.tag # "Ok") =>
        /\ storage.utxo = pre.utxo
        /\ storage.extrinsics = pre.extrinsics
        /\ storage.height = pre.height

====
